---- MODULE Spec2Model ----
(***************************************************************************)
(* A model of the Yahoo Finance scraper: the Playwright variant's library  *)
(* (funcs.py: link discovery, article parsing, archive writing) and the    *)
(* requests variant's driver (main.py: hash-file deduplicated run).        *)
(*                                                                         *)
(* Text is modelled as sequences of one-character strings, URLs as         *)
(* sequences of tokens, the filesystem as a function from paths to file    *)
(* contents.  Each subsystem has its own specification over the shared     *)
(* variables; the variables of the other subsystems stay at their idle     *)
(* values.                                                                 *)
(***************************************************************************)
EXTENDS Integers, Sequences, FiniteSets, TLC

VARIABLES
    \* ---- archive (funcs.save_article, sequential calls) ----
    fs,          \* path -> file content, DOMAIN fs = the files that exist
    now,         \* wall-clock day (index into the calendar)
    lastCall,    \* what the last save_article call saw and answered
    ncalls,      \* number of save_article calls made
    \* ---- concurrent writers (funcs.save_article, one call per writer) ----
    wpc,         \* writer -> the statement it is at
    wart,        \* writer -> the article it saves
    wret,        \* writer -> what its call returned
    opens,       \* number of times the file was opened for writing
    \* ---- link discovery (funcs.scrape_article_links) ----
    page,        \* the front page handed to the discoverer
    unique_urls, \* the set it returned
    \* ---- article parsing (funcs.scrape_article_page) ----
    html,        \* the article page handed to the parser
    parsed,      \* what the parser returned
    \* ---- the requests driver (main.main) ----
    hashFile,            \* scraped_article_hashes.json
    outputFile,          \* yahoo_finance_articles.json
    rpc,                 \* where the run is
    scraped_hashes,      \* the hashes loaded at the start of the run
    article_urls,        \* the discovered URLs the loop has not reached yet
    newly_scraped_data,  \* the records scraped in this run
    new_hashes,          \* their hashes
    fetched,             \* the URLs this run requested
    runEnd,              \* how the last run ended
    nruns,               \* runs started
    interrupted          \* a run was cut off while writing its files

archiveVars == <<fs, now, lastCall, ncalls>>
concVars == <<wpc, wart, wret, opens>>
linkVars == <<page, unique_urls>>
parseVars == <<html, parsed>>
runVars == <<hashFile, outputFile, rpc, scraped_hashes, article_urls,
             newly_scraped_data, new_hashes, fetched, runEnd, nruns,
             interrupted>>
vars == <<fs, now, lastCall, ncalls, wpc, wart, wret, opens, page, unique_urls,
          html, parsed, hashFile, outputFile, rpc, scraped_hashes,
          article_urls, newly_scraped_data, new_hashes, fetched, runEnd,
          nruns, interrupted>>

None == "None"

(***************************************************************************)
(* Bounds                                                                  *)
(***************************************************************************)
MaxDay == 2      \* wall-clock days a behaviour spans
MaxCalls == 3    \* save_article calls per behaviour
NumWriters == 2      \* concurrent save_article calls
MaxHeroLinks == 1    \* links inside the hero section
MaxStreamItems == 1  \* items of the news stream
MaxParagraphs == 2   \* <p> elements inside the article body
MaxNodes == 2        \* text nodes inside one <p> element
MaxRuns == 2         \* runs of main()

\* the article URLs considered
Urls == {"u1", "u2"}
Days == 1..MaxDay

\* the days the articles' timestamps name
PublishDays == {1, 2}

(***************************************************************************)
(* funcs.py constants                                                      *)
(***************************************************************************)
SOURCE_SHORT == "yahoo"

(***************************************************************************)
(* Dates.  A value of the article's 'date' field is a string; the model    *)
(* keeps its shape: an ISO 8601 timestamp without offset ("iso"), one      *)
(* with a trailing Z ("isoZ"), one with an explicit +00:00 offset          *)
(* ("isoOff"), or text that is no ISO timestamp ("bad").                   *)
(***************************************************************************)
DateStrs ==
    [fmt : {"iso", "isoZ"}, day : PublishDays] \cup {[fmt |-> "bad", day |-> 0]}

\* The calendar date of day index n: 2024-01-31, 2024-02-01, 2024-02-02, ...
Calendar(n) ==
    IF n = 1 THEN [year |-> 2024, month |-> 1, day |-> 31]
             ELSE [year |-> 2024, month |-> 2, day |-> n - 1]

\* str.replace('Z', '+00:00')
ReplaceZ(ds) ==
    IF ds.fmt = "isoZ" THEN [ds EXCEPT !.fmt = "isoOff"] ELSE ds

\* datetime.fromisoformat: a date object, or ValueError
FromIsoFormat(ds) ==
    IF ds.fmt \in {"iso", "isoOff"}
    THEN [raised |-> "no", date |-> Calendar(ds.day)]
    ELSE [raised |-> "ValueError", date |-> Calendar(1)]

\* date_obj.strftime("%Y%m%d"), as the number the eight digits spell
StrfYmd(d) == d.year * 10000 + d.month * 100 + d.day

\* str(n).zfill(2), as the sequence of its digits
Zfill2(n) == <<n \div 10, n % 10>>

\* hashlib.md5(url).hexdigest()[-8:]: one fixed 8-hex-digit word per URL
get_md5_hash(url) == <<"md5", url>>

Articles == [url : Urls, date : DateStrs]

DateParts_mut(article, today) ==
    LET d == Calendar(today)
    IN  [year |-> d.year, month |-> Zfill2(d.month), day_str |-> StrfYmd(d)]

\* ---- save_article, lines 181-197: the target path ----
DateParts(article, today) ==
    LET date_obj == FromIsoFormat(ReplaceZ(article.date))
        d == IF date_obj.raised = "ValueError" THEN Calendar(today)
                                               ELSE date_obj.date
    IN  [year |-> d.year, month |-> Zfill2(d.month), day_str |-> StrfYmd(d)]

SaveDir(article, today) ==
    LET parts == DateParts(article, today)
    IN  <<"data", SOURCE_SHORT, parts.year, parts.month>>

FilePath(article, today) ==
    LET parts == DateParts(article, today)
    IN  [dir  |-> SaveDir(article, today),
         name |-> <<SOURCE_SHORT, parts.day_str, get_md5_hash(article.url)>>]

PathExists_mut(files, path) == FALSE

\* os.path.exists(file_path)
PathExists(files, path) == path \in DOMAIN files

\* what json.dump leaves in the file: the whole record, or a prefix of it
\* when serialisation fails part-way
FileContent(article, complete) ==
    [url |-> article.url, date |-> article.date, complete |-> complete]

Faults == {"none", "makedirs", "open", "dump"}

Extend(f, k, v) == [x \in DOMAIN f \cup {k} |-> IF x = k THEN v ELSE f[x]]

NoCall == [article |-> None]

CallRecord(article, fault, result) ==
    [article     |-> article,
     path        |-> FilePath(article, now),
     existed     |-> FilePath(article, now) \in DOMAIN fs,
     savedBefore |-> \E p \in DOMAIN fs : fs[p] = FileContent(article, TRUE),
     fault       |-> fault,
     result      |-> result]

\* save_article(article_data, root_dir) with the I/O fault the call meets
SaveArticle(article, fault) ==
    LET file_path == FilePath(article, now)
    IN  /\ ncalls < MaxCalls
        \* a call that finds the file never reaches open() and json.dump
        /\ PathExists(fs, file_path) => fault \in {"none", "makedirs"}
        /\ ncalls' = ncalls + 1
        /\ UNCHANGED <<concVars, linkVars, parseVars, runVars>>
        /\ now' = now
        /\ IF fault = "makedirs"
           THEN \* os.makedirs raises: outside every try block
                /\ lastCall' = CallRecord(article, fault, "raised")
                /\ fs' = fs
           ELSE \* the directories now exist; the model keeps files only
                /\ IF PathExists(fs, file_path)
                   THEN /\ lastCall' = CallRecord(article, fault, "False")
                        /\ fs' = fs
                   ELSE CASE fault = "open" ->
                               /\ lastCall' = CallRecord(article, fault, "False")
                               /\ fs' = fs
                          [] fault = "dump" ->
                               /\ lastCall' = CallRecord(article, fault, "False")
                               /\ fs' = Extend(fs, file_path,
                                               FileContent(article, FALSE))
                          [] OTHER ->
                               /\ lastCall' = CallRecord(article, fault, "True")
                               /\ fs' = Extend(fs, file_path,
                                               FileContent(article, TRUE))

Save == \E article \in Articles, fault \in Faults : SaveArticle(article, fault)

\* the wall clock moves on to the next day (between calls or between runs)
Tick ==
    /\ now < MaxDay
    /\ now' = now + 1
    /\ UNCHANGED <<fs, lastCall, ncalls>>
    /\ UNCHANGED <<concVars, linkVars, parseVars, runVars>>

ArchiveInit ==
    /\ fs = [p \in {} |-> None]
    /\ now = 1
    /\ lastCall = NoCall
    /\ ncalls = 0

Writers == 1..NumWriters

ConcIdle ==
    /\ wpc = [w \in Writers |-> "idle"]
    /\ wart = [w \in Writers |-> None]
    /\ wret = [w \in Writers |-> None]
    /\ opens = 0

LinkIdle ==
    /\ page = None
    /\ unique_urls = {}

ParseIdle ==
    /\ html = None
    /\ parsed = None

\* a JSON file: absent, holding a value, or cut off in the middle of a write
AbsentFile(empty) == [state |-> "absent", value |-> empty]
JsonFile(v) == [state |-> "json", value |-> v]
BrokenFile(empty) == [state |-> "broken", value |-> empty]

RunIdle ==
    /\ hashFile = AbsentFile({})
    /\ outputFile = AbsentFile(<<>>)
    /\ rpc = "idle"
    /\ scraped_hashes = {}
    /\ article_urls = {}
    /\ newly_scraped_data = <<>>
    /\ new_hashes = {}
    /\ fetched = {}
    /\ runEnd = "none"
    /\ nruns = 0
    /\ interrupted = FALSE

Init == ArchiveInit /\ ConcIdle /\ LinkIdle /\ ParseIdle /\ RunIdle

Next == Save \/ Tick

Spec == Init /\ [][Next]_vars

(***************************************************************************)
(* Concurrent writers: every writer runs save_article once, for an article *)
(* of the same identifier (same url, same publish day); the statements of  *)
(* different writers interleave freely, as nothing in save_article locks.  *)
(***************************************************************************)
\* the articles of one identifier: url u1 published on day 1, in either
\* spelling of the timestamp
SameIdArticles == {a \in Articles : a.url = "u1" /\ a.date.day = 1}

\* lines 195-200: makedirs, then the existence check
WriterCheck(w) ==
    /\ wpc[w] = "check"
    /\ IF PathExists(fs, FilePath(wart[w], now))
       THEN /\ wpc' = [wpc EXCEPT ![w] = "done"]
            /\ wret' = [wret EXCEPT ![w] = "False"]
       ELSE /\ wpc' = [wpc EXCEPT ![w] = "open"]
            /\ wret' = wret
    /\ UNCHANGED <<fs, now, lastCall, ncalls, wart, opens, linkVars, parseVars, runVars>>

\* line 203: open(file_path, 'w') creates the file or truncates it
WriterOpen(w) ==
    /\ wpc[w] = "open"
    /\ fs' = Extend(fs, FilePath(wart[w], now), FileContent(wart[w], FALSE))
    /\ opens' = opens + 1
    /\ wpc' = [wpc EXCEPT ![w] = "dump"]
    /\ UNCHANGED <<now, lastCall, ncalls, wart, wret, linkVars, parseVars, runVars>>

\* line 204: json.dump writes the record
WriterDump(w) ==
    /\ wpc[w] = "dump"
    /\ fs' = Extend(fs, FilePath(wart[w], now), FileContent(wart[w], TRUE))
    /\ wpc' = [wpc EXCEPT ![w] = "return"]
    /\ UNCHANGED <<now, lastCall, ncalls, wart, wret, opens, linkVars, parseVars, runVars>>

\* lines 205-206
WriterReturn(w) ==
    /\ wpc[w] = "return"
    /\ wret' = [wret EXCEPT ![w] = "True"]
    /\ wpc' = [wpc EXCEPT ![w] = "done"]
    /\ UNCHANGED <<fs, now, lastCall, ncalls, wart, opens, linkVars, parseVars, runVars>>

ConcInit ==
    /\ fs = [p \in {} |-> None]
    /\ now \in Days
    /\ lastCall = NoCall
    /\ ncalls = 0
    /\ wpc = [w \in Writers |-> "check"]
    /\ wart \in [Writers -> SameIdArticles]
    /\ wret = [w \in Writers |-> None]
    /\ opens = 0
    /\ LinkIdle
    /\ ParseIdle
    /\ RunIdle

ConcNext ==
    \E w \in Writers :
        WriterCheck(w) \/ WriterOpen(w) \/ WriterDump(w) \/ WriterReturn(w)

SpecConc == ConcInit /\ [][ConcNext]_vars

\* C2 as stated: under every interleaving the file is opened for writing at
\* most once, and once all writers have returned exactly one of them
\* reported saved and every other one reported duplicate.
C2_Claim ==
    /\ opens <= 1
    /\ (\A w \in Writers : wpc[w] = "done") =>
          /\ Cardinality({w \in Writers : wret[w] = "True"}) = 1
          /\ \A w \in Writers : wret[w] \in {"True", "False"}

(***************************************************************************)
(* Link discovery.  A URL is a sequence of tokens: the scheme and host,    *)
(* the path's pieces, and, if it has a query string, "?" and the query.    *)
(* An href without a host is relative and is resolved against base_url.    *)
(***************************************************************************)
BASE_HOST == "https://finance.yahoo.com"       \* BASE_URL, funcs.py line 17
BLACKLISTED == "noisefreefinance.com"          \* funcs.py line 106
BLACKLISTED_HOST == "https://noisefreefinance.com"

HrefHosts == {"", BASE_HOST, BLACKLISTED_HOST, "https://other.example"}
HrefPaths == {<<"/quote/", "a">>, <<"/news/", "a">>, <<"/m/", "a">>,
              <<"/news/", BLACKLISTED>>}
HrefQueries == {<<>>, <<"?", "x">>, <<"?", "/news/">>, <<"?", "/m/">>}
Hrefs == [host : HrefHosts, path : HrefPaths, query : HrefQueries]

\* urllib.parse.urljoin(base_url, href)
urljoin(base_host, href) ==
    <<IF href.host = "" THEN base_host ELSE href.host>>
        \o href.path \o href.query

\* needle in text, for one token of text: the token is the needle or has it
\* inside it
TokenHas(tok, needle) ==
    \/ tok = needle
    \/ needle = BLACKLISTED /\ tok = BLACKLISTED_HOST

\* needle in url (Python's substring test on the whole URL string)
StrIn(needle, url) == \E i \in 1..Len(url) : TokenHas(url[i], needle)

\* url.split('?')[0]
RECURSIVE BeforeQuery(_)
BeforeQuery(url) ==
    IF url = <<>> \/ Head(url) = "?" THEN <<>>
    ELSE <<Head(url)>> \o BeforeQuery(Tail(url))

SeqsUpTo(S, n) == UNION {[1..k -> S] : k \in 0..n}

NoLink == [host |-> "-", path |-> <<>>, query |-> <<>>]

\* a front page: whether it could be retrieved, the hero section's links
\* (None: no hero section), the first link of each stream item (NoLink: the
\* item has no link; None: no news stream)
Pages ==
    {[retrieved |-> FALSE, hero |-> <<>>, hasHero |-> FALSE,
      stream |-> <<>>, hasStream |-> FALSE]}
    \cup
    {[retrieved |-> TRUE, hero |-> h, hasHero |-> hh,
      stream |-> st, hasStream |-> hs] :
        h \in SeqsUpTo(Hrefs, MaxHeroLinks), hh \in BOOLEAN,
        st \in SeqsUpTo(Hrefs \cup {NoLink}, MaxStreamItems), hs \in BOOLEAN}

\* lines 82-89: the hero section's links
HeroUrls(doc, base_host) ==
    IF ~doc.hasHero THEN {}
    ELSE {BeforeQuery(urljoin(base_host, doc.hero[i])) :
            i \in {j \in 1..Len(doc.hero) :
                     StrIn("/news/", urljoin(base_host, doc.hero[j]))}}

\* lines 95-111: the news stream's items
StreamUrls(doc, base_host) ==
    IF ~doc.hasStream THEN {}
    ELSE {BeforeQuery(urljoin(base_host, doc.stream[i])) :
            i \in {j \in 1..Len(doc.stream) :
                     /\ doc.stream[j] # NoLink
                     /\ ~StrIn(BLACKLISTED, urljoin(base_host, doc.stream[j]))
                     /\ \/ StrIn("/news/", urljoin(base_host, doc.stream[j]))
                        \/ StrIn("/m/", urljoin(base_host, doc.stream[j]))}}

\* scrape_article_links(page, base_url)
scrape_article_links(doc, base_host) ==
    IF ~doc.retrieved THEN {}
    ELSE HeroUrls(doc, base_host) \cup StreamUrls(doc, base_host)

Discover ==
    /\ page.discovered = FALSE
    /\ unique_urls' = scrape_article_links(page.doc, BASE_HOST)
    /\ page' = [page EXCEPT !.discovered = TRUE]
    /\ UNCHANGED <<archiveVars, concVars, parseVars, runVars>>

LinkInit ==
    /\ ArchiveInit
    /\ ConcIdle
    /\ page \in [doc : {d \in Pages : (~d.hasHero => d.hero = <<>>)
                                      /\ (~d.hasStream => d.stream = <<>>)},
                  discovered : {FALSE}]
    /\ unique_urls = {}
    /\ ParseIdle
    /\ RunIdle

LinkNext == Discover

SpecLinks == LinkInit /\ [][LinkNext]_vars

Host(url) == url[1]
PathOf(url) == Tail(BeforeQuery(url))
PathHas(url, marker) == \E i \in 1..Len(PathOf(url)) : PathOf(url)[i] = marker
Resolved(href) ==
    <<IF href.host = "" THEN BASE_HOST ELSE href.host>> \o href.path

StreamLinks == IF page.doc.hasStream
               THEN {page.doc.stream[i] : i \in 1..Len(page.doc.stream)}
                        \ {NoLink}
               ELSE {}

\* C3 as stated: the returned set has no URL of the blacklisted host,
\* whichever region the link was found in.
C3_Claim ==
    page.discovered =>
        \A u \in unique_urls : Host(u) # BLACKLISTED_HOST

\* C7 as stated: every returned URL is absolute, has no query string, and
\* has an article marker in its path: /news/, or /m/ for a URL that a
\* stream item links to.
C7_Claim ==
    page.discovered =>
        \A u \in unique_urls :
            /\ Host(u) # ""
            /\ \A i \in 1..Len(u) : u[i] # "?"
            /\ \/ PathHas(u, "/news/")
               \/ /\ PathHas(u, "/m/")
                  /\ \E h \in StreamLinks : Resolved(h) = u

(***************************************************************************)
(* Article parsing.  Text is a sequence of characters; " " stands for any  *)
(* whitespace character and "a" for any other one.                         *)
(***************************************************************************)
TextNodes == {<<" ">>, <<"a">>, <<" ", "a", " ">>}

RECURSIVE LStrip(_)
LStrip(t) == IF t # <<>> /\ Head(t) = " " THEN LStrip(Tail(t)) ELSE t

RECURSIVE RStrip(_)
RStrip(t) ==
    IF t # <<>> /\ t[Len(t)] = " " THEN RStrip(SubSeq(t, 1, Len(t) - 1)) ELSE t

\* str.strip()
Strip(t) == RStrip(LStrip(t))

\* element.get_text(strip=True): every text node stripped, the empty ones
\* dropped, the rest concatenated
RECURSIVE get_text_strip(_)
get_text_strip(nodes) ==
    IF nodes = <<>> THEN <<>>
    ELSE Strip(Head(nodes)) \o get_text_strip(Tail(nodes))

KeepParagraph_mut(text) == TRUE

\* line 142: "if p.get_text(strip=True)"
KeepParagraph(text) == text # <<>>

\* line 142: the texts of the paragraphs that have one
RECURSIVE ParagraphTexts(_)
ParagraphTexts(ps) ==
    IF ps = <<>> THEN <<>>
    ELSE LET text == get_text_strip(Head(ps))
         IN  (IF KeepParagraph(text) THEN <<text>> ELSE <<>>)
                 \o ParagraphTexts(Tail(ps))

\* "\n".join(texts)
RECURSIVE JoinLines(_)
JoinLines(texts) ==
    IF texts = <<>> THEN <<>>
    ELSE IF Len(texts) = 1 THEN texts[1]
    ELSE texts[1] \o <<"\n">> \o JoinLines(Tail(texts))

SOURCE_FULL == "finance.yahoo.com"

NoRecord(kind) ==
    [kind |-> kind, title |-> "", url |-> "", date |-> [fmt |-> "", day |-> 0],
     source |-> "", full_content |-> <<>>]

\* scrape_article_page(page, url): a record, None, or the exception that
\* leaves the function
scrape_article_page(doc, url, today) ==
    IF ~doc.fetched THEN NoRecord("None")             \* lines 117-119
    ELSE IF doc.rejected THEN NoRecord("raised")      \* line 121, no try
    ELSE IF doc.raises THEN NoRecord("None")          \* lines 176-178
    ELSE
        LET content_elements == IF doc.hasBody THEN doc.paragraphs ELSE <<>>
            full_content == JoinLines(ParagraphTexts(content_elements))
        IN  IF full_content = <<>> THEN NoRecord("None")
            ELSE [kind |-> "record",
                  title |-> IF doc.hasTitle THEN "title" ELSE "Not Found",
                  url |-> url,
                  date |-> IF doc.hasTime THEN [fmt |-> "isoZ", day |-> 1]
                                          ELSE [fmt |-> "iso", day |-> today],
                  source |-> SOURCE_FULL,
                  full_content |-> full_content]

ParagraphSets == SeqsUpTo(SeqsUpTo(TextNodes, MaxNodes), MaxParagraphs)

\* an article page: whether it could be fetched, whether the HTML parser
\* rejects its markup, whether extraction raises, which elements it has
FailedPage(got, rejects, throws) ==
    [fetched |-> got, rejected |-> rejects, raises |-> throws,
     hasTitle |-> FALSE, hasTime |-> FALSE, hasBody |-> FALSE,
     paragraphs |-> <<>>]

ArticlePages ==
    {FailedPage(FALSE, FALSE, FALSE), FailedPage(TRUE, TRUE, FALSE),
     FailedPage(TRUE, FALSE, TRUE)}
    \cup
    {[fetched |-> TRUE, rejected |-> FALSE, raises |-> FALSE,
      hasTitle |-> t, hasTime |-> t, hasBody |-> FALSE, paragraphs |-> <<>>] :
        t \in BOOLEAN}
    \cup
    {[fetched |-> TRUE, rejected |-> FALSE, raises |-> FALSE,
      hasTitle |-> TRUE, hasTime |-> TRUE, hasBody |-> TRUE,
      paragraphs |-> ps] : ps \in ParagraphSets}
    \cup
    {[fetched |-> TRUE, rejected |-> FALSE, raises |-> FALSE,
      hasTitle |-> FALSE, hasTime |-> FALSE, hasBody |-> TRUE,
      paragraphs |-> <<<<t>>>>] : t \in TextNodes}

Parse ==
    /\ html.parsed = FALSE
    /\ parsed' = scrape_article_page(html.doc, "u1", now)
    /\ html' = [html EXCEPT !.parsed = TRUE]
    /\ UNCHANGED <<archiveVars, concVars, linkVars, runVars>>

ParseInit ==
    /\ ArchiveInit
    /\ ConcIdle
    /\ LinkIdle
    /\ html \in [doc : ArticlePages, parsed : {FALSE}]
    /\ parsed = NoRecord("pending")
    /\ RunIdle

ParseNext == Parse

SpecParse == ParseInit /\ [][ParseNext]_vars

\* a paragraph shows text: one of its text nodes has a non-blank character
Visible(p) == \E i \in 1..Len(p) : \E j \in 1..Len(p[i]) : p[i][j] # " "

VisibleParagraphs ==
    IF html.doc.hasBody
    THEN {i \in 1..Len(html.doc.paragraphs) : Visible(html.doc.paragraphs[i])}
    ELSE {}

\* C4: scrape_article_page returns no record with an empty full_content: a
\* page without article-body container, without paragraphs or with blank
\* paragraphs only gives None, and a record's full_content is one line per
\* paragraph that shows text, each line non-empty and trimmed, the lines
\* separated by single newlines.
C4_NeverEmptyContent ==
    html.parsed =>
        LET fc == parsed.full_content
            n == Len(fc)
        IN  /\ (html.doc.fetched /\ ~html.doc.rejected
                   /\ VisibleParagraphs = {}) => parsed.kind = "None"
            /\ parsed.kind = "record" =>
                  /\ n > 0
                  /\ fc[1] \notin {" ", "\n"}
                  /\ fc[n] \notin {" ", "\n"}
                  /\ \A i \in 1..(n - 1) :
                        /\ fc[i] = "\n" => fc[i + 1] \notin {" ", "\n"}
                        /\ fc[i + 1] = "\n" => fc[i] # " "
                  /\ Cardinality({i \in 1..n : fc[i] = "\n"}) + 1
                         = Cardinality(VisibleParagraphs)

\* C4 witness: a page with a blank paragraph beside one that shows text was
\* parsed into a record, and a page of blank paragraphs only into None.
C4_Witness ==
    /\ html.parsed
    /\ html.doc.hasBody
    /\ Len(html.doc.paragraphs) >= 2
    /\ \E i \in 1..Len(html.doc.paragraphs) :
          html.doc.paragraphs[i] # <<>> /\ ~Visible(html.doc.paragraphs[i])
    /\ parsed.kind = "record"

(***************************************************************************)
(* The requests driver, main.main: load the hash file, discover the links, *)
(* scrape every link whose hash is not known, append the new records to    *)
(* the output file and write the grown hash set.                           *)
(***************************************************************************)
\* hashlib.sha256(url).hexdigest(): one fixed digest per URL
Sha256(url) == <<"sha256", url>>

\* load_scraped_hashes(HASH_FILE)
load_scraped_hashes(file) ==
    IF file.state = "json" THEN file.value ELSE {}

\* lines 166-172: the records already in OUTPUT_FILE
LoadOutput(file) ==
    IF file.state = "json" THEN file.value ELSE <<>>

AlreadyScraped_mut(link_hash, hashes) == FALSE

\* line 150: "if link_hash in scraped_hashes"
AlreadyScraped(link_hash, hashes) == link_hash \in hashes

\* what requesting and parsing one article page comes to (main.py
\* scrape_article_page): the request fails, the HTML parser rejects the
\* markup (line 87, outside the try), extraction raises inside the try, the
\* page has neither title nor author, or a record is returned
PageOutcomes == {"fetch_failed", "rejected", "raises", "not_article", "record"}

\* lines 133-145
StartRun ==
    /\ rpc = "idle"
    /\ nruns < MaxRuns
    /\ nruns' = nruns + 1
    /\ scraped_hashes' = load_scraped_hashes(hashFile)
    /\ newly_scraped_data' = <<>>
    /\ new_hashes' = {}
    /\ fetched' = {}
    /\ \E found \in SUBSET Urls :
          /\ article_urls' = found
          /\ IF found = {}
             THEN rpc' = "idle" /\ runEnd' = "no_links"
             ELSE rpc' = "loop" /\ runEnd' = "running"
    /\ UNCHANGED <<hashFile, outputFile, interrupted>>
    /\ UNCHANGED <<archiveVars, concVars, linkVars, parseVars>>

\* lines 148-151: the URL is known, continue
SkipKnown ==
    /\ rpc = "loop"
    /\ \E url \in article_urls :
          /\ AlreadyScraped(Sha256(url), scraped_hashes)
          /\ article_urls' = article_urls \ {url}
    /\ UNCHANGED <<hashFile, outputFile, rpc, scraped_hashes,
                   newly_scraped_data, new_hashes, fetched, runEnd, nruns,
                   interrupted>>
    /\ UNCHANGED <<archiveVars, concVars, linkVars, parseVars>>

\* lines 153-162: the URL is new, scrape it
ScrapeUrl ==
    /\ rpc = "loop"
    /\ \E url \in article_urls, outcome \in PageOutcomes :
          /\ ~AlreadyScraped(Sha256(url), scraped_hashes)
          /\ fetched' = fetched \cup {url}
          /\ article_urls' = article_urls \ {url}
          /\ CASE outcome = "record" ->
                    /\ newly_scraped_data' = Append(newly_scraped_data,
                          [article_link |-> url,
                           article_link_hash |-> Sha256(url)])
                    /\ new_hashes' = new_hashes \cup {Sha256(url)}
                    /\ UNCHANGED <<rpc, runEnd>>
               [] outcome = "rejected" ->
                    \* the exception leaves scrape_article_page and main
                    /\ rpc' = "idle"
                    /\ runEnd' = "raised"
                    /\ UNCHANGED <<newly_scraped_data, new_hashes>>
               [] OTHER ->
                    UNCHANGED <<newly_scraped_data, new_hashes, rpc, runEnd>>
    /\ UNCHANGED <<hashFile, outputFile, scraped_hashes, nruns, interrupted>>
    /\ UNCHANGED <<archiveVars, concVars, linkVars, parseVars>>

\* lines 163-164, 183-184: the loop is over
EndLoop ==
    /\ rpc = "loop"
    /\ article_urls = {}
    /\ IF newly_scraped_data # <<>>
       THEN rpc' = "write_output" /\ runEnd' = runEnd
       ELSE rpc' = "idle" /\ runEnd' = "reported"
    /\ UNCHANGED <<hashFile, outputFile, scraped_hashes, article_urls,
                   newly_scraped_data, new_hashes, fetched, nruns,
                   interrupted>>
    /\ UNCHANGED <<archiveVars, concVars, linkVars, parseVars>>

\* lines 166-178
WriteOutput ==
    /\ rpc = "write_output"
    /\ outputFile' = JsonFile(LoadOutput(outputFile) \o newly_scraped_data)
    /\ rpc' = "write_hashes"
    /\ UNCHANGED <<hashFile, scraped_hashes, article_urls,
                   newly_scraped_data, new_hashes, fetched, runEnd, nruns,
                   interrupted>>
    /\ UNCHANGED <<archiveVars, concVars, linkVars, parseVars>>

\* lines 180-182
WriteHashes ==
    /\ rpc = "write_hashes"
    /\ hashFile' = JsonFile(scraped_hashes \cup new_hashes)
    /\ rpc' = "idle"
    /\ runEnd' = "reported"
    /\ UNCHANGED <<outputFile, scraped_hashes, article_urls,
                   newly_scraped_data, new_hashes, fetched, nruns,
                   interrupted>>
    /\ UNCHANGED <<archiveVars, concVars, linkVars, parseVars>>

\* the process is stopped, or a write fails, while the run writes its files:
\* in the middle of the output file, between the two files, or in the
\* middle of the hash file
CutOff ==
    /\ rpc \in {"write_output", "write_hashes"}
    /\ \/ /\ rpc = "write_output"
          /\ outputFile' = BrokenFile(<<>>)
          /\ hashFile' = hashFile
       \/ /\ rpc = "write_hashes"
          /\ hashFile' \in {hashFile, BrokenFile({})}
          /\ outputFile' = outputFile
    /\ rpc' = "idle"
    /\ runEnd' = "cut_off"
    /\ interrupted' = TRUE
    /\ UNCHANGED <<scraped_hashes, article_urls, newly_scraped_data,
                   new_hashes, fetched, nruns>>
    /\ UNCHANGED <<archiveVars, concVars, linkVars, parseVars>>

RunInit == ArchiveInit /\ ConcIdle /\ LinkIdle /\ ParseIdle /\ RunIdle

RunNext ==
    \/ StartRun
    \/ SkipKnown
    \/ ScrapeUrl
    \/ EndLoop
    \/ WriteOutput
    \/ WriteHashes
    \/ CutOff

SpecRun == RunInit /\ [][RunNext]_vars

\* C6 as stated: no run is ended by a failure met while one URL is
\* processed; whatever fetching and parsing a URL come to, the run goes on
\* to the remaining URLs and to its end-of-run report.
C6_Claim ==
    /\ runEnd # "raised"
    /\ (rpc = "idle" /\ runEnd \notin {"none", "no_links", "cut_off"}) =>
          runEnd = "reported"

OutputHashes ==
    {outputFile.value[i].article_link_hash : i \in 1..Len(outputFile.value)}

C10_RunInv ==
    /\ rpc # "idle" =>
          /\ \A url \in fetched : Sha256(url) \notin scraped_hashes
          /\ \A i \in 1..Len(newly_scraped_data) :
                newly_scraped_data[i].article_link_hash \notin scraped_hashes
    /\ (rpc = "idle" /\ ~interrupted) =>
          /\ outputFile.state # "broken"
          /\ hashFile.state # "broken"
          /\ OutputHashes \subseteq hashFile.value
          /\ \A i, j \in 1..Len(outputFile.value) :
                outputFile.value[i].article_link = outputFile.value[j].article_link
                    => i = j

C10_HashesGrow ==
    ~interrupted' => hashFile.value \subseteq hashFile'.value

\* C10: a run requests no URL and records no URL whose hash is in the set
\* it loaded; as long as no run was cut off while writing its files, between
\* runs every record of the output file has its hash in the hash file and
\* no URL is in the output file twice, and the hash file only grows.
C10_HashDedup == []C10_RunInv /\ [][C10_HashesGrow]_vars

\* C10 witness: a second run met a URL it had stored, skipped it, scraped
\* another one, and both files hold both.
C10_Witness ==
    /\ rpc = "idle"
    /\ nruns = 2
    /\ ~interrupted
    /\ runEnd = "reported"
    /\ scraped_hashes # {}
    /\ new_hashes # {}
    /\ fetched # Urls
    /\ Len(outputFile.value) = 2
    /\ Cardinality(hashFile.value) = 2

(***************************************************************************)
(* Archive claims                                                          *)
(***************************************************************************)
Called == ncalls > 0

\* the date field is an ISO 8601 timestamp (its shape, not the parser's answer)
IsIso(date) == date.fmt \in {"iso", "isoZ"}

SavedResult == "True"        \* funcs.py line 206
DuplicateResult == "False"   \* funcs.py line 200

\* C1 as stated: a call that meets no I/O failure reports saved when no file
\* is at its target path, and reports duplicate whenever an earlier call
\* with the same article (same url, same date) reported saved.
C1_Original ==
    (Called /\ lastCall.fault = "none") =>
        /\ (~lastCall.existed => lastCall.result = SavedResult)
        /\ (lastCall.savedBefore => lastCall.result = DuplicateResult)

C1_CallInv ==
    Called =>
        /\ (~lastCall.existed /\ lastCall.fault = "none") =>
              /\ lastCall.result = SavedResult
              /\ lastCall.path \in DOMAIN fs
              /\ fs[lastCall.path] = FileContent(lastCall.article, TRUE)
        /\ (lastCall.existed /\ lastCall.result # "raised") =>
              lastCall.result = DuplicateResult
        /\ lastCall.result = SavedResult => ~lastCall.existed
        /\ (lastCall.savedBefore /\ IsIso(lastCall.article.date)) =>
              /\ lastCall.existed
              /\ lastCall.result # SavedResult

C1_WriteOnce ==
    \A p \in DOMAIN fs : p \in DOMAIN fs' /\ fs'[p] = fs[p]

\* C1 amended: for an article whose date field is an ISO 8601 timestamp,
\* save_article is idempotent: a call that finds no file at the target path
\* and meets no I/O failure writes the record and returns True; a call that
\* finds a file there returns False unless directory creation raises, so no
\* call after the one that saved the article saves it again; and no file is
\* ever changed or removed once it exists, whatever the calls in between.
C1_Amended == []C1_CallInv /\ [][C1_WriteOnce]_vars

\* C1 witness: a second call with an already saved ISO-dated article, after
\* a call for another article, answered duplicate.
C1_Witness ==
    /\ ncalls >= 3
    /\ lastCall.savedBefore
    /\ IsIso(lastCall.article.date)
    /\ lastCall.result = DuplicateResult
    /\ \E p \in DOMAIN fs : fs[p].url # lastCall.article.url

\* C5 as stated: a call that meets an I/O failure ends with an outcome of
\* its own: it does not raise, and what it returns is neither the value
\* returned for saved nor the value returned for duplicate.
C5_Claim ==
    (Called /\ lastCall.fault # "none") =>
        lastCall.result \notin {"raised", SavedResult, DuplicateResult}

SameArticleDay(d1, d2) ==
    \/ d1 = d2
    \/ IsIso(d1) /\ IsIso(d2) /\ d1.day = d2.day

\* C8 as stated: two articles with the same url and the same publish date
\* are never given two target paths, whenever the calls are made.
C8_Original ==
    /\ \A p, q \in DOMAIN fs :
          (fs[p].url = fs[q].url /\ SameArticleDay(fs[p].date, fs[q].date))
              => p = q
    /\ Called =>
          \A p \in DOMAIN fs :
              (fs[p].url = lastCall.article.url
                 /\ SameArticleDay(fs[p].date, lastCall.article.date))
                  => lastCall.path = p

\* C8 amended: for articles whose date field is an ISO 8601 timestamp, the
\* target path is a function of the url and the publish day only: every
\* call, at any wall-clock day, for the same url and publish day computes
\* the path of the file stored for them, and the file name's YYYYMMDD lies
\* in the year/month partition the path names.
C8_Amended ==
    /\ \A p, q \in DOMAIN fs :
          (fs[p].url = fs[q].url /\ IsIso(fs[p].date) /\ IsIso(fs[q].date)
             /\ fs[p].date.day = fs[q].date.day) => p = q
    /\ Called =>
          /\ \A p \in DOMAIN fs :
                (fs[p].url = lastCall.article.url
                   /\ IsIso(fs[p].date) /\ IsIso(lastCall.article.date)
                   /\ fs[p].date.day = lastCall.article.date.day)
                    => lastCall.path = p
          /\ lastCall.path.name[2] \div 10000 = lastCall.path.dir[3]
          /\ (lastCall.path.name[2] \div 100) % 100 =
                 lastCall.path.dir[4][1] * 10 + lastCall.path.dir[4][2]

\* C8 witness: a call made on a later wall-clock day than the publish day,
\* with another spelling of the same day's timestamp, found the stored file.
C8_Witness ==
    /\ Called
    /\ IsIso(lastCall.article.date)
    /\ now > lastCall.article.date.day
    /\ lastCall.existed
    /\ fs[lastCall.path].url = lastCall.article.url
    /\ fs[lastCall.path].date # lastCall.article.date
    /\ IsIso(fs[lastCall.path].date)

\* C9 as stated: after a call that ended with a write error no file exists
\* at the article's target path.
C9_Claim ==
    (Called /\ lastCall.fault \in {"open", "dump"}) =>
        lastCall.path \notin DOMAIN fs

====
